---- MODULE Spec2Model ----
(***************************************************************************)
(* Context retrieval engine of SmartWorkrooms: AIService.semanticSearch    *)
(* with its chunker (chunkDocument) and its relevance scorer               *)
(* (calculateSemanticSimilarity).                                          *)
(*                                                                         *)
(* Strings are sequences of one-character strings.  Scores are JavaScript  *)
(* numbers obtained by one division of small integers; they are kept as    *)
(* exact fractions [num, den] and compared by cross-multiplication.        *)
(***************************************************************************)
EXTENDS Integers, Sequences, FiniteSets, TLC

VARIABLES documents, call, scored, chunked, chat, estimated, ui

vars == <<documents, call, scored, chunked, chat, estimated, ui>>

(* ------------------------------ bounds --------------------------------- *)

\* longest document list handed to semanticSearch
MaxDocs == 3

\* longest query and longest text given to the scorer on its own
MaxQueryLen == 3

MaxTextLen == 3

\* longest content and largest chunk size given to the chunker on its own
MaxContentLen == 5

MaxChunkSize == 3

\* most files uploaded to a chat room
MaxFiles == 22

\* longest string given to the token estimator on its own
MaxEstimateLen == 12

(* --------------------------- JavaScript values ------------------------- *)

\* the value of a property that is absent at run time: no string (its one
\* element is not a character)
Undefined == <<"undefined">>

None == "none"

Min(a, b) == IF a <= b THEN a ELSE b

Max(a, b) == IF a >= b THEN a ELSE b

\* n copies of the character c
Rep(c, n) == [k \in 1..n |-> c]

\* s followed by the filler character x up to length n
Pad(s, n) == s \o Rep("x", n - Len(s))

(* String.prototype.toLowerCase, on the characters the model uses *)
lowerChar(c) ==
  CASE c = "A" -> "a"
    [] c = "B" -> "b"
    [] c = "C" -> "c"
    [] c = "D" -> "d"
    [] OTHER -> c

toLowerCase(s) == [k \in 1..Len(s) |-> lowerChar(s[k])]

(* String.prototype.substring(start, end), 0-based, end exclusive, both    *)
(* clamped to the length of the string                                     *)
substring(s, start, end) ==
  SubSeq(s, Min(Max(start, 0), Len(s)) + 1, Min(Max(end, 0), Len(s)))

(* String.prototype.includes: w occurs in t as a contiguous substring *)
includes(t, w) ==
  \E k \in 0..(Len(t) - Len(w)) : \A i \in 1..Len(w) : t[k + i] = w[i]

(* String.prototype.split(' '): the pieces between single space characters;*)
(* a string without a space, the empty string included, is one piece       *)
RECURSIVE splitSpace(_)
splitSpace(s) ==
  IF \A k \in 1..Len(s) : s[k] # " "
  THEN <<s>>
  ELSE LET p == CHOOSE k \in 1..Len(s) :
                  s[k] = " " /\ \A j \in 1..(k - 1) : s[j] # " "
       IN  <<SubSeq(s, 1, p - 1)>> \o splitSpace(SubSeq(s, p + 1, Len(s)))

(* ------------------------------ fractions ------------------------------ *)

Frac(n, d) == [num |-> n, den |-> d]

Zero == Frac(0, 1)

FracLess(a, b) == a.num * b.den < b.num * a.den

FracEq(a, b) == a.num * b.den = b.num * a.den

FracAdd(a, b) ==
  IF a.den = b.den
  THEN Frac(a.num + b.num, a.den)
  ELSE Frac(a.num * b.den + b.num * a.den, a.den * b.den)

\* sum / n
FracDiv(sum, n) == Frac(sum.num, sum.den * n)

\* the relevance threshold 0.3 of semanticSearch
Threshold == Frac(3, 10)

(* Array.prototype.sort with a comparator, which is stable: the element at *)
(* index k goes after every element the comparator puts before it and      *)
(* after every earlier element the comparator ties it with.                *)
(* before[j, k] is "compare(seq[j], seq[k]) < 0".                          *)
sort(seq, before) ==
  LET n == Len(seq)
      rank(k) == Cardinality({j \in 1..n :
                   \/ before[j, k]
                   \/ (~before[k, j] /\ j < k)})
  IN  [p \in 1..n |-> seq[CHOOSE k \in 1..n : rank(k) = p - 1]]

(* Array.prototype.slice(0, n) *)
slice(seq, n) == SubSeq(seq, 1, Min(n, Len(seq)))

(* ------------------------------- chunker ------------------------------- *)

\* chunk window of semanticSearch
ChunkSize == 500

\* chunks kept per result
TopChunks == 3

\* the loop with the test i <= content.length
RECURSIVE chunkLoopInclusive(_, _, _, _)
chunkLoopInclusive(content, chunkSize, i, chunks) ==
  IF i <= Len(content)
  THEN chunkLoopInclusive(content, chunkSize, i + chunkSize,
                          Append(chunks, substring(content, i, i + chunkSize)))
  ELSE chunks

chunkDocumentInclusive(content, chunkSize) ==
  chunkLoopInclusive(content, chunkSize, 0, <<>>)

RECURSIVE chunkLoop(_, _, _, _)
chunkLoop(content, chunkSize, i, chunks) ==
  IF i < Len(content)
  THEN chunkLoop(content, chunkSize, i + chunkSize,
                 Append(chunks, substring(content, i, i + chunkSize)))
  ELSE chunks

chunkDocument(content, chunkSize) == chunkLoop(content, chunkSize, 0, <<>>)

(* -------------------------------- scorer ------------------------------- *)

\* query.toLowerCase() raises a TypeError when query is not a string
similarityThrows(query, text) == query = Undefined \/ text = Undefined

matchCount(queryWords, textWords) ==
  Cardinality({k \in 1..Len(queryWords) :
    \E j \in 1..Len(textWords) :
      \/ includes(textWords[j], queryWords[k])
      \/ includes(queryWords[k], textWords[j])})

calculateSemanticSimilarity(query, text) ==
  IF similarityThrows(query, text)
  THEN Zero
  ELSE LET queryWords == splitSpace(toLowerCase(query))
           textWords == splitSpace(toLowerCase(text))
       IN  Frac(matchCount(queryWords, textWords), Len(queryWords))

(* ------------------------------- inputs -------------------------------- *)

AB == <<"a", "b">>

CD == <<"c", "d">>

SP == <<" ">>

\* the queries handed to semanticSearch
QEmpty == <<>>

QOne == AB

QUpper == <<"A", "B">>

QTwo == AB \o SP \o CD

QFour == AB \o SP \o CD \o SP \o <<"e", "f">> \o SP \o <<"g", "h">>

\* ten words, three of which are "ab", "cd", "ab"
QTen == AB \o SP \o CD \o SP \o AB \o <<" ", "e", " ", "f", " ", "g", " ", "h",
                                          " ", "i", " ", "j", " ", "k">>

Queries == {QEmpty, QOne, QUpper, QTwo, QFour, QTen, Undefined}

\* five chunks; against QTwo they score 1/2, 1, 1, 1, 1
LongContent ==
  Pad(AB, ChunkSize) \o Pad(AB \o SP \o CD, ChunkSize)
    \o Pad(CD \o SP \o AB, ChunkSize) \o Pad(AB \o SP \o CD, ChunkSize)
    \o CD \o SP \o AB

\* the first window ends on a space
EdgeContent == Rep("z", ChunkSize - 1) \o SP \o <<"z", "z">>

Doc(id, name, content) == [id |-> id, name |-> name, content |-> content]

\* the uploaded files a room can hold; a file stored without content has
\* content undefined
DocPool ==
  { Doc("d1", "one.txt", AB \o SP \o AB),
    Doc("d2", "long.txt", LongContent),
    Doc("d3", "cd.txt", CD),
    Doc("d5", "empty.txt", <<>>),
    Doc("d6", "nocontent.pdf", Undefined),
    Doc("d7", "edge.txt", EdgeContent) }

\* lists of distinct files, at most MaxDocs long
DocLists ==
  UNION {{l \in [1..n -> DocPool] : \A j, k \in 1..n : l[j] = l[k] => j = k}
           : n \in 0..MaxDocs}

CallIds == {1, 2}

(* ---------------------------- semanticSearch --------------------------- *)

\* score >= 0.3
relevantAtLeast(score) == ~FracLess(score, Threshold)

\* score > 0
relevantPositive(score) == FracLess(Zero, score)

\* score > 0.3
relevant(score) == FracLess(Threshold, score)

\* where (a, b) => b.score - a.score is negative on the elements of seq
byScore(seq) ==
  [j \in 1..Len(seq), k \in 1..Len(seq) |-> FracLess(seq[k].score, seq[j].score)]

\* where (a, b) => b.overallScore - a.overallScore is negative
byOverallScore(seq) ==
  [j \in 1..Len(seq), k \in 1..Len(seq) |->
     FracLess(seq[k].overallScore, seq[j].overallScore)]

RECURSIVE sumScores(_, _)
sumScores(chunks, sum) ==
  IF chunks = <<>> THEN sum
  ELSE sumScores(Tail(chunks), FracAdd(sum, Head(chunks).score))

\* the first three chunks, then sorted
topChunksSliceFirst(relevantChunks) ==
  sort(slice(relevantChunks, TopChunks),
       byScore(slice(relevantChunks, TopChunks)))

topChunks(relevantChunks) ==
  slice(sort(relevantChunks, byScore(relevantChunks)), TopChunks)

\* the mean of the chunks shown
overallScoreOfShown(relevantChunks) ==
  FracDiv(sumScores(topChunks(relevantChunks), Zero),
          Len(topChunks(relevantChunks)))

overallScoreOf(relevantChunks) ==
  FracDiv(sumScores(relevantChunks, Zero), Len(relevantChunks))

\* the results as accumulated
unsortedResults(results) == results

sortResults(results) == sort(results, byOverallScore(results))

Idle ==
  [pc |-> "idle", query |-> None, d |-> 0, chunks |-> <<>>, i |-> 0,
   score |-> Zero, relevantChunks |-> <<>>, results |-> <<>>, ret |-> None,
   console |-> <<>>]

\* the call of calculateSemanticSimilarity on chunks[i], awaited
awaitScore(r) ==
  [r EXCEPT
     !.pc = "await",
     !.score = calculateSemanticSimilarity(r.query, r.chunks[r.i + 1]),
     !.console = IF similarityThrows(r.query, r.chunks[r.i + 1])
                 THEN Append(@, "Error calculating semantic similarity:")
                 ELSE @]

\* the catch block returning what was accumulated
searchFailedPartial(r) ==
  [r EXCEPT !.pc = "returned",
            !.ret = r.results,
            !.console = Append(@, "Error performing semantic search:")]

\* the catch block of semanticSearch
searchFailed(r) ==
  [r EXCEPT !.pc = "thrown",
            !.ret = "Failed to perform semantic search",
            !.console = Append(@, "Error performing semantic search:")]

\* the outer loop from its d-th document on, up to the next await, the
\* return or the throw
RECURSIVE forDocuments(_, _, _)
forDocuments(r, docs, d) ==
  IF d > Len(docs)
  THEN [r EXCEPT !.pc = "returned", !.d = d,
                 !.results = sortResults(r.results),
                 !.ret = sortResults(r.results)]
  ELSE IF docs[d].content = Undefined
  THEN searchFailed([r EXCEPT !.d = d])
  ELSE LET chunks == chunkDocument(docs[d].content, ChunkSize)
       IN  IF Len(chunks) = 0
           THEN forDocuments([r EXCEPT !.relevantChunks = <<>>,
                                       !.chunks = chunks, !.i = 0],
                             docs, d + 1)
           ELSE awaitScore([r EXCEPT !.d = d, !.chunks = chunks, !.i = 0,
                                     !.relevantChunks = <<>>])

\* one array of results for all the calls
resultsOfAllCalls(r) == call[1].results \o call[2].results

\* the local array results of the call
resultsSoFar(r) == r.results

\* the end of the window, not of the content
relevantChunkOpenEnd(chunk, score, i, document) ==
  [text |-> chunk, score |-> score,
   startIndex |-> i * ChunkSize,
   endIndex |-> (i + 1) * ChunkSize]

\* the object pushed for the i-th chunk of the document
relevantChunk(chunk, score, i, document) ==
  [text |-> chunk, score |-> score,
   startIndex |-> i * ChunkSize,
   endIndex |-> Min((i + 1) * ChunkSize, Len(document.content))]

\* the body of the inner loop after the await, and what follows it
afterScore(r, docs) ==
  LET document == docs[r.d]
      relevantChunks ==
        IF relevant(r.score)
        THEN Append(r.relevantChunks,
                    relevantChunk(r.chunks[r.i + 1], r.score, r.i, document))
        ELSE r.relevantChunks
  IN  IF r.i + 1 < Len(r.chunks)
      THEN awaitScore([r EXCEPT !.relevantChunks = relevantChunks, !.i = r.i + 1])
      ELSE IF Len(relevantChunks) > 0
      THEN forDocuments(
             [r EXCEPT !.i = r.i + 1,
                       !.relevantChunks = sort(relevantChunks, byScore(relevantChunks)),
                       !.results = Append(resultsSoFar(r),
                         [documentId |-> document.id,
                          documentName |-> document.name,
                          relevantChunks |-> topChunks(relevantChunks),
                          overallScore |-> overallScoreOf(relevantChunks)])],
             docs, r.d + 1)
      ELSE forDocuments([r EXCEPT !.i = r.i + 1], docs, r.d + 1)

(* ------------- chat context: sendMessage of InviteHandler -------------- *)

\* filesToProcess.length > 20, slice(0, 20)
MaxSelected == 20

MaxContextTokens == 12000

\* Math.max(tokensPerFile * 4, 500)
MinCharsPerFile == 500

FilenameWeight == 10

ContentWeight == 1

CodeBoost == 5

\* the quotient rounded down
estimateTokensFloor(text) == Len(text) \div 4

\* Math.ceil(text.length / 4)
estimateTokens(text) == (Len(text) + 3) \div 4

\* the characters the class \s matches
isSpace(c) == c \in {" ", "\t", "\n"}

(* String.prototype.split(/\s+/): the pieces between maximal runs of       *)
(* whitespace; a leading or trailing run leaves an empty piece             *)
RECURSIVE splitWhitespace(_)
splitWhitespace(s) ==
  IF \A k \in 1..Len(s) : ~isSpace(s[k])
  THEN <<s>>
  ELSE LET p == CHOOSE k \in 1..Len(s) :
                  isSpace(s[k]) /\ \A j \in 1..(k - 1) : ~isSpace(s[j])
           e == CHOOSE k \in p..Len(s) :
                  /\ \A j \in p..k : isSpace(s[j])
                  /\ (k = Len(s) \/ ~isSpace(s[k + 1]))
       IN  <<SubSeq(s, 1, p - 1)>> \o splitWhitespace(SubSeq(s, e + 1, Len(s)))

(* String.prototype.split(sep) for a one-character separator *)
RECURSIVE splitChar(_, _)
splitChar(s, sep) ==
  IF \A k \in 1..Len(s) : s[k] # sep
  THEN <<s>>
  ELSE LET p == CHOOSE k \in 1..Len(s) :
                  s[k] = sep /\ \A j \in 1..(k - 1) : s[j] # sep
       IN  <<SubSeq(s, 1, p - 1)>> \o splitChar(SubSeq(s, p + 1, Len(s)), sep)

(* Array.prototype.join *)
RECURSIVE join(_, _)
join(strings, sep) ==
  IF Len(strings) = 0 THEN <<>>
  ELSE IF Len(strings) = 1 THEN strings[1]
  ELSE strings[1] \o sep \o join(Tail(strings), sep)

(* String.prototype.trim *)
trim(s) ==
  IF \A k \in 1..Len(s) : isSpace(s[k])
  THEN <<>>
  ELSE LET first == CHOOSE k \in 1..Len(s) :
                      ~isSpace(s[k]) /\ \A j \in 1..(k - 1) : isSpace(s[j])
           last == CHOOSE k \in 1..Len(s) :
                     ~isSpace(s[k]) /\ \A j \in (k + 1)..Len(s) : isSpace(s[j])
       IN  SubSeq(s, first, last)

(* String.prototype.startsWith *)
startsWith(s, prefix) ==
  Len(prefix) <= Len(s) /\ SubSeq(s, 1, Len(prefix)) = prefix

(* Array.prototype.filter, keep[k] telling whether seq[k] stays *)
RECURSIVE filter(_, _)
filter(seq, keep) ==
  IF Len(seq) = 0 THEN <<>>
  ELSE LET front == filter(SubSeq(seq, 1, Len(seq) - 1), keep)
       IN  IF keep[Len(seq)] THEN Append(front, seq[Len(seq)]) ELSE front

Digit(d) == <<"0", "1", "2", "3", "4", "5", "6", "7", "8", "9">>[d + 1]

\* a non-negative number in a template literal
RECURSIVE decimal(_)
decimal(n) ==
  IF n < 10 THEN <<Digit(n)>> ELSE Append(decimal(n \div 10), Digit(n % 10))

(* the selector *)

CodeExtensions == {<<"p", "y">>, <<"j", "s">>, <<"t", "s">>, <<"c", "s">>}

\* file.name.split('.').pop()?.toLowerCase()
extension(name) ==
  LET pieces == splitChar(name, ".") IN toLowerCase(pieces[Len(pieces)])

\* how many of the words satisfy text.includes(word)
wordsIncluded(text, words) ==
  Cardinality({k \in 1..Len(words) : includes(text, words[k])})

\* without the boost for code files
fileScoreNoBoost(file, messageWords) ==
  FilenameWeight * wordsIncluded(toLowerCase(file.name), messageWords)
    + ContentWeight * wordsIncluded(toLowerCase(file.content), messageWords)

\* a word in the name counts like a word in the content
fileScoreUnweighted(file, messageWords) ==
  wordsIncluded(toLowerCase(file.name), messageWords)
    + ContentWeight * wordsIncluded(toLowerCase(file.content), messageWords)
    + (IF extension(file.name) \in CodeExtensions THEN CodeBoost ELSE 0)

\* the score of one file against the words of the message
fileScore(file, messageWords) ==
  FilenameWeight * wordsIncluded(toLowerCase(file.name), messageWords)
    + ContentWeight * wordsIncluded(toLowerCase(file.content), messageWords)
    + (IF extension(file.name) \in CodeExtensions THEN CodeBoost ELSE 0)

scoreFiles(filesToProcess, message) ==
  LET messageWords == splitWhitespace(toLowerCase(message))
  IN  [k \in 1..Len(filesToProcess) |->
         [file |-> filesToProcess[k],
          score |-> fileScore(filesToProcess[k], messageWords)]]

\* where (a, b) => b.score - a.score is negative on the scored files
byFileScore(seq) ==
  [j \in 1..Len(seq), k \in 1..Len(seq) |-> seq[k].score < seq[j].score]

\* equal scores come out in the opposite of their input order
topFilesTiesReversed(scoredFiles) ==
  LET n == Len(scoredFiles)
      reversed == [k \in 1..n |-> scoredFiles[n + 1 - k]]
      top == slice(sort(reversed, byFileScore(reversed)), MaxSelected)
  IN  [k \in 1..Len(top) |-> top[k].file]

\* the first 20 files are taken before they are sorted
topFilesSliceFirst(scoredFiles) ==
  LET first == slice(scoredFiles, MaxSelected)
      top == sort(first, byFileScore(first))
  IN  [k \in 1..Len(top) |-> top[k].file]

\* sort((a, b) => b.score - a.score).slice(0, 20).map(item => item.file)
topFiles(scoredFiles) ==
  LET top == slice(sort(scoredFiles, byFileScore(scoredFiles)), MaxSelected)
  IN  [k \in 1..Len(top) |-> top[k].file]

\* the selection is ignored
candidateFilesAll(uploadedFiles, selectedFiles) == uploadedFiles

\* the selected files if any are selected, else all the files
candidateFiles(uploadedFiles, selectedFiles) ==
  IF Cardinality(selectedFiles) > 0
  THEN filter(uploadedFiles,
              [k \in 1..Len(uploadedFiles) |-> uploadedFiles[k].name \in selectedFiles])
  ELSE uploadedFiles

\* twenty files are already too many
tooManyFilesInclusive(filesToProcess) == Len(filesToProcess) >= MaxSelected

tooManyFiles(filesToProcess) == Len(filesToProcess) > MaxSelected

getRelevantFiles(uploadedFiles, selectedFiles, message) ==
  LET filesToProcess == candidateFiles(uploadedFiles, selectedFiles)
  IN  IF tooManyFiles(filesToProcess)
      THEN topFiles(scoreFiles(filesToProcess, message))
      ELSE filesToProcess

(* the budgeter *)

\* a stretch of n characters of fixed text
Fixed(n) == Rep("_", n)

\* the template literal of baseSystemMessage: its fixed text has 66, 35, 16
\* and 131 characters around the room name and the two counts
baseSystemMessage(room, uploaded, shown) ==
  Fixed(66) \o room \o Fixed(35) \o decimal(uploaded) \o Fixed(16)
    \o decimal(shown) \o Fixed(131)

tokensPerFileOf(room, uploaded, shown, message) ==
  LET currentTokens == estimateTokens(baseSystemMessage(room, uploaded, shown))
                         + estimateTokens(message)
      availableTokens == MaxContextTokens - currentTokens
  IN  availableTokens \div shown

\* without the floor of 500 characters
maxCharsForFileNoFloor(tokensPerFile) == tokensPerFile * 4

maxCharsForFileOf(tokensPerFile) == Max(tokensPerFile * 4, MinCharsPerFile)

Keywords ==
  { <<"c", "l", "a", "s", "s">>,
    <<"f", "u", "n", "c", "t", "i", "o", "n">>,
    <<"d", "e", "f">>,
    <<"p", "u", "b", "l", "i", "c">>,
    <<"p", "r", "i", "v", "a", "t", "e">>,
    <<"i", "n", "t", "e", "r", "f", "a", "c", "e">>,
    <<"t", "y", "p", "e">>,
    <<"c", "o", "n", "s", "t">>,
    <<"l", "e", "t">>,
    <<"v", "a", "r">> }

\* /^(class|function|...|var)\s/.test(line.trim()), or the trimmed line
\* starts with // or with #
isImportant(line) ==
  LET t == trim(line)
  IN  \/ \E kw \in Keywords :
           startsWith(t, kw) /\ Len(t) > Len(kw) /\ isSpace(t[Len(kw) + 1])
      \/ startsWith(t, <<"/", "/">>)
      \/ startsWith(t, <<"#">>)

importantLinesOf(content) ==
  LET lines == splitChar(content, "\n")
  IN  filter(lines, [k \in 1..Len(lines) |-> isImportant(lines[k])])

\* '\n\n[Showing key definitions only]'
KeyDefinitionsMarker ==
  <<"\n", "\n", "[", "S", "h", "o", "w", "i", "n", "g", " ", "k", "e", "y",
    " ", "d", "e", "f", "i", "n", "i", "t", "i", "o", "n", "s", " ", "o",
    "n", "l", "y", "]">>

\* '\n\n[Content truncated...]'
TruncatedMarker ==
  <<"\n", "\n", "[", "C", "o", "n", "t", "e", "n", "t", " ", "t", "r", "u",
    "n", "c", "a", "t", "e", "d", ".", ".", ".", "]">>

\* the important lines may fill the limit exactly
keyDefinitionsFitAtMost(importantLines, maxCharsForFile) ==
  Len(importantLines) > 0 /\ Len(join(importantLines, <<"\n">>)) <= maxCharsForFile

\* without the test that there are important lines
keyDefinitionsFitEmpty(importantLines, maxCharsForFile) ==
  Len(join(importantLines, <<"\n">>)) < maxCharsForFile

\* content.length reaching the limit counts as too long
tooLongInclusive(content, maxCharsForFile) == Len(content) >= maxCharsForFile

\* without the test of the length of the important lines
keyDefinitionsFitAlways(importantLines, maxCharsForFile) ==
  Len(importantLines) > 0

\* importantLines.length > 0 && importantLines.join('\n').length < maxCharsForFile
keyDefinitionsFit(importantLines, maxCharsForFile) ==
  Len(importantLines) > 0 /\ Len(join(importantLines, <<"\n">>)) < maxCharsForFile

\* content.length > maxCharsForFile
tooLong(content, maxCharsForFile) == Len(content) > maxCharsForFile

\* the content of one file as it goes into its block
contentFor(file, maxCharsForFile) ==
  IF tooLong(file.content, maxCharsForFile)
  THEN LET importantLines == importantLinesOf(file.content)
       IN  IF keyDefinitionsFit(importantLines, maxCharsForFile)
           THEN join(importantLines, <<"\n">>) \o KeyDefinitionsMarker
           ELSE substring(file.content, 0, maxCharsForFile) \o TruncatedMarker
  ELSE file.content

\* `--- ${file.name} ---\n${content}`
processFile(file, maxCharsForFile) ==
  <<"-", "-", "-", " ">> \o file.name \o <<" ", "-", "-", "-", "\n">>
    \o contentFor(file, maxCharsForFile)

\* the blocks follow one another without a blank line between them
fileContextOfOneNewline(processedFiles, uploaded) ==
  <<"\n", "\n", "C", "o", "n", "t", "e", "x", "t", " ", "f", "r", "o", "m",
    " ", "f", "i", "l", "e", "s", " ", "(">>
    \o decimal(Len(processedFiles)) \o <<"/">> \o decimal(uploaded)
    \o <<" ", "s", "h", "o", "w", "n", ")", ":", "\n">>
    \o join(processedFiles, <<"\n">>)

\* `\n\nContext from files (${shown}/${uploaded} shown):\n${blocks}`
fileContextOf(processedFiles, uploaded) ==
  <<"\n", "\n", "C", "o", "n", "t", "e", "x", "t", " ", "f", "r", "o", "m",
    " ", "f", "i", "l", "e", "s", " ", "(">>
    \o decimal(Len(processedFiles)) \o <<"/">> \o decimal(uploaded)
    \o <<" ", "s", "h", "o", "w", "n", ")", ":", "\n">>
    \o join(processedFiles, <<"\n", "\n">>)

\* filesToProcess, which is uploadedFiles itself when nothing is selected,
\* is sorted where it stands
uploadedFilesSortedInPlace(uploadedFiles, selectedFiles, message) ==
  IF Cardinality(selectedFiles) = 0 /\ tooManyFiles(uploadedFiles)
  THEN LET scoredFiles == scoreFiles(uploadedFiles, message)
           sorted == sort(scoredFiles, byFileScore(scoredFiles))
       IN  [k \in 1..Len(sorted) |-> sorted[k].file]
  ELSE uploadedFiles

\* the array uploadedFiles after getRelevantFiles and the budgeter: filter,
\* map and slice make new arrays, sort runs on the array that map made, and
\* no element is assigned to
uploadedFilesAfter(uploadedFiles, selectedFiles, message) == uploadedFiles

\* the budgeter of sendMessage given the selected files; budgetedFiles are
\* the files the budget is divided among and the blocks are made for
budgetFiles(c, relevantFiles, budgetedFiles) ==
  LET tokensPerFile ==
        tokensPerFileOf(c.room, Len(c.uploadedFiles), Len(budgetedFiles),
                        c.userMessage)
      maxCharsForFile == maxCharsForFileOf(tokensPerFile)
      processedFiles ==
        [k \in 1..Len(budgetedFiles) |-> processFile(budgetedFiles[k], maxCharsForFile)]
      filesToProcess == candidateFiles(c.uploadedFiles, c.selectedFiles)
      filesAfter ==
        uploadedFilesAfter(c.uploadedFiles, c.selectedFiles, c.userMessage)
  IN  IF Len(budgetedFiles) > 0
      THEN [c EXCEPT
              !.pc = "assembled",
              !.uploadedFiles = filesAfter,
              !.scoredFiles = IF tooManyFiles(filesToProcess)
                              THEN scoreFiles(filesToProcess, c.userMessage)
                              ELSE <<>>,
              !.relevantFiles = relevantFiles,
              !.maxCharsForFile = maxCharsForFile,
              !.processedFiles = processedFiles,
              !.fileContext = fileContextOf(processedFiles, Len(c.uploadedFiles))]
      ELSE [c EXCEPT !.pc = "assembled", !.uploadedFiles = filesAfter]

\* the budget is divided among the candidates, not among the files selected
assembleContextUnselected(c) ==
  budgetFiles(c,
              getRelevantFiles(c.uploadedFiles, c.selectedFiles, c.userMessage),
              candidateFiles(c.uploadedFiles, c.selectedFiles))

\* sendMessage from the selection of the files to the file context: the
\* files that getRelevantFiles returns are the ones budgeted
assembleContext(c) ==
  budgetFiles(c,
              getRelevantFiles(c.uploadedFiles, c.selectedFiles, c.userMessage),
              getRelevantFiles(c.uploadedFiles, c.selectedFiles, c.userMessage))

(* ------------------ search panel: performSearch of SmartSearch --------- *)

\* setLoading(true) and the call of semanticSearch, awaited
searchStarted(u, c) ==
  [u EXCEPT !.loading = TRUE, !.invocation[c] = "searching"]

\* the failure is caught but the loading flag is left as it is
searchSettledNoFinally(u, c, r) ==
  IF r.pc = "thrown"
  THEN [u EXCEPT !.results = <<>>, !.invocation[c] = "done"]
  ELSE [u EXCEPT !.results = r.ret, !.loading = FALSE,
                 !.invocation[c] = "done"]

\* what follows the await: setResults(searchResults), or the catch block
\* with setResults([]), and then the finally block with setLoading(false)
searchSettled(u, c, r) ==
  IF r.pc = "thrown"
  THEN [u EXCEPT !.results = <<>>, !.loading = FALSE,
                 !.invocation[c] = "done"]
  ELSE [u EXCEPT !.results = r.ret, !.loading = FALSE,
                 !.invocation[c] = "done"]

(* ------------------------------- actions ------------------------------- *)

NoApplication == [applied |-> FALSE]

\* no message is being sent
NoChat == [pc |-> "none"]

\* no search panel is open
NoSearchUI == [pc |-> "none"]

\* the strings over the characters of S of length at most n
Strings(S, n) == UNION {[1..k -> S] : k \in 0..n}

QueryChars == {"a", "b", "A", " "}

TextChars == {"a", "b", "A", " ", "\t"}

ContentChars == {"a", "b"}

QueryStrings == Strings(QueryChars, MaxQueryLen)

TextStrings == Strings(TextChars, MaxTextLen)

ContentStrings == Strings(ContentChars, MaxContentLen)

Init ==
  /\ documents \in DocLists
  /\ call = [c \in CallIds |-> Idle]
  /\ scored = NoApplication
  /\ chunked = NoApplication
  /\ chat = NoChat
  /\ estimated = NoApplication
  /\ ui = NoSearchUI

\* semanticSearch(query, documents) up to its first await
StartSearch(c, query) ==
  /\ call[c].pc = "idle"
  /\ call' = [call EXCEPT ![c] = forDocuments([Idle EXCEPT !.query = query],
                                               documents, 1)]
  /\ UNCHANGED <<documents, scored, chunked, chat, estimated, ui>>

\* the awaited score arrives and the call runs on to its next await or end
ResumeSearch(c) ==
  /\ call[c].pc = "await"
  /\ call' = [call EXCEPT ![c] = afterScore(call[c], documents)]
  /\ UNCHANGED <<documents, scored, chunked, chat, estimated, ui>>

Next ==
  \/ \E query \in Queries : StartSearch(1, query)
  \/ ResumeSearch(1)

Spec == Init /\ [][Next]_vars

(* the scorer on its own: the initial state holds the arguments *)

InitScorer ==
  /\ documents = <<>>
  /\ call = [c \in CallIds |-> Idle]
  /\ \E query \in QueryStrings, text \in TextStrings :
       scored = [applied |-> FALSE, query |-> query, text |-> text,
                 score |-> Zero]
  /\ chunked = NoApplication
  /\ chat = NoChat
  /\ estimated = NoApplication
  /\ ui = NoSearchUI

Score ==
  /\ ~scored.applied
  /\ scored' = [scored EXCEPT
                  !.applied = TRUE,
                  !.score = calculateSemanticSimilarity(scored.query, scored.text)]
  /\ UNCHANGED <<documents, call, chunked, chat, estimated, ui>>

NextScorer == Score

SpecScorer == InitScorer /\ [][NextScorer]_vars

(* the chunker on its own: the initial state holds the arguments *)

InitChunker ==
  /\ documents = <<>>
  /\ call = [c \in CallIds |-> Idle]
  /\ scored = NoApplication
  /\ \E content \in ContentStrings, chunkSize \in 1..MaxChunkSize :
       chunked = [applied |-> FALSE, content |-> content,
                  chunkSize |-> chunkSize, chunks |-> <<>>]
  /\ chat = NoChat
  /\ estimated = NoApplication
  /\ ui = NoSearchUI

Chunk ==
  /\ ~chunked.applied
  /\ chunked' = [chunked EXCEPT
                   !.applied = TRUE,
                   !.chunks = chunkDocument(chunked.content, chunked.chunkSize)]
  /\ UNCHANGED <<documents, call, scored, chat, estimated, ui>>

NextChunker == Chunk

SpecChunker == InitChunker /\ [][NextChunker]_vars

(* the chat on its own: the initial state holds the room's files, the    *)
(* selection and the message                                               *)

Txt == <<".", "t", "x", "t">>

Py == <<".", "p", "y">>

Js == <<".", "j", "s">>

FileName(k, ext) == <<"f">> \o decimal(k) \o ext

\* a content whose important lines, joined, have n characters: a comment of
\* 200 characters, a plain line, a declaration and another plain line
KeyLinesContent(n) ==
  join(<<Pad(<<"/", "/", " ">>, 200), Pad(<<"z", "z">>, 300),
         Pad(<<"c", "o", "n", "s", "t", " ">>, n - 201), Pad(<<"z", "z">>, 100)>>, <<"\n">>)

\* indented declarations and comments, and lines that only look like one
IndentedContent ==
  join(<<Pad(<<" ", " ", "d", "e", "f", " ">>, 100), <<"c", "l", "a", "s", "s">>, <<"c", "l", "a", "s", "s", "e", "s", " ", "x">>,
         Pad(<<"\t", "#", " ">>, 50), Pad(<<"z", "z">>, 400)>>, <<"\n">>)

\* n characters without a line break, declaration or comment
PlainContent(n) == Pad(AB \o SP \o CD \o SP, n)

File(name, content) == [name |-> name, content |-> content]

FileAt(k) ==
  CASE k = 1 -> File(FileName(1, Txt), KeyLinesContent(499))
    [] k = 2 -> File(FileName(2, Txt), KeyLinesContent(500))
    [] k = 3 -> File(FileName(3, Py), KeyLinesContent(501))
    [] k = 4 -> File(FileName(4, Txt), PlainContent(600))
    [] k = 5 -> File(FileName(5, Js), PlainContent(500))
    [] k = 6 -> File(FileName(6, Txt), PlainContent(501))
    [] k = 7 -> File(FileName(7, Txt), IndentedContent)
    [] k = 8 -> File(FileName(8, Py), AB \o SP \o CD)
    [] k = 9 -> File(FileName(9, Txt), <<"z", "z">>)
    [] k = 10 -> File(AB \o FileName(10, Py), <<"z", "z">> \o SP \o AB)
    [] OTHER -> File(FileName(k, IF k % 3 = 0 THEN Py ELSE Txt),
                     IF k % 2 = 0 THEN AB ELSE <<"z", "z">> \o SP \o CD)

\* the first n files, in the order of upload or in the opposite order
FilesUp(n) == [k \in 1..n |-> FileAt(k)]

FilesDown(n) == [k \in 1..n |-> FileAt(n + 1 - k)]

FileLists == {FilesUp(n) : n \in 0..MaxFiles} \cup {FilesDown(n) : n \in 0..MaxFiles}

\* nothing selected, two files, every file from the second on, a file that
\* is no longer uploaded
Selections ==
  { {},
    {FileName(2, Txt), FileName(9, Txt)},
    {FileAt(k).name : k \in 2..MaxFiles},
    {<<"g", "o", "n", "e", ".", "t", "x", "t">>} }

\* a message of n characters that starts with a word
LongMessage(n) == AB \o SP \o Rep("m", n - 3)

F9 == FileName(9, Txt)

ShortMessages ==
  { <<>>, AB, <<"A", "B", " ", "c", "d">>, AB \o SP \o <<"A", "B">>, SP \o AB, F9,
    F9 \o <<" ", "a", "b", " ", "c", "d", " ", "a", " ", "b", " ", "c">> }

\* messages that leave little, nothing or less than nothing of the budget
LongMessages == {LongMessage(40000), LongMessage(47744), LongMessage(47800)}

Messages == ShortMessages \cup LongMessages

\* the rooms in which the long messages are sent
LongMessageFileLists ==
  {FilesUp(1), FilesUp(7), FilesDown(7), FilesUp(10), FilesUp(MaxFiles)}

RoomName == <<"R", "1">>

InitChat ==
  /\ documents = <<>>
  /\ call = [c \in CallIds |-> Idle]
  /\ scored = NoApplication
  /\ chunked = NoApplication
  /\ estimated = NoApplication
  /\ ui = NoSearchUI
  /\ \E uploadedFiles \in FileLists, selectedFiles \in Selections,
        userMessage \in Messages :
       /\ userMessage \in LongMessages => uploadedFiles \in LongMessageFileLists
       /\ chat = [pc |-> "sending", room |-> RoomName,
                  uploadedFiles |-> uploadedFiles,
                  selectedFiles |-> selectedFiles,
                  userMessage |-> userMessage,
                  scoredFiles |-> <<>>, relevantFiles |-> <<>>,
                  maxCharsForFile |-> 0, processedFiles |-> <<>>,
                  fileContext |-> <<>>]

\* sendMessage, which returns at once on a blank message, selects the files
\* and assembles the file context
AssembleContext ==
  /\ chat.pc = "sending"
  /\ trim(chat.userMessage) # <<>>
  /\ chat' = assembleContext(chat)
  /\ UNCHANGED <<documents, call, scored, chunked, estimated, ui>>

NextChat == AssembleContext

SpecChat == InitChat /\ [][NextChat]_vars

(* the token estimator on its own: the initial state holds two strings *)

EstimateStrings == {Rep("a", n) : n \in 0..MaxEstimateLen}

InitEstimator ==
  /\ documents = <<>>
  /\ call = [c \in CallIds |-> Idle]
  /\ scored = NoApplication
  /\ chunked = NoApplication
  /\ chat = NoChat
  /\ ui = NoSearchUI
  /\ \E a \in EstimateStrings, b \in EstimateStrings :
       estimated = [applied |-> FALSE, a |-> a, b |-> b,
                    tokensA |-> 0, tokensB |-> 0]

Estimate ==
  /\ ~estimated.applied
  /\ estimated' = [estimated EXCEPT
                     !.applied = TRUE,
                     !.tokensA = estimateTokens(estimated.a),
                     !.tokensB = estimateTokens(estimated.b)]
  /\ UNCHANGED <<documents, call, scored, chunked, chat, ui>>

NextEstimator == Estimate

SpecEstimator == InitEstimator /\ [][NextEstimator]_vars

(* two searches at once over the same documents, their steps interleaved *)

ConcurrentQueries == {QOne, QTwo, QTen}

ConcurrentDocLists == {l \in DocLists : Len(l) <= 2}

InitConcurrent ==
  /\ documents \in ConcurrentDocLists
  /\ call = [c \in CallIds |-> Idle]
  /\ scored = NoApplication
  /\ chunked = NoApplication
  /\ chat = NoChat
  /\ estimated = NoApplication
  /\ ui = NoSearchUI

NextConcurrent ==
  \/ \E c \in CallIds, query \in ConcurrentQueries : StartSearch(c, query)
  \/ \E c \in CallIds : ResumeSearch(c)

SpecConcurrent == InitConcurrent /\ [][NextConcurrent]_vars

(* a room: the chat window and the search panel read the same array of   *)
(* files, roomFiles[roomId], so a message is sent and a search runs over  *)
(* one list, in any order                                                 *)

RoomFile(k) == Doc(FileAt(k).name, FileAt(k).name, FileAt(k).content)

RoomFilesUp(n) == [k \in 1..n |-> RoomFile(k)]

RoomFilesDown(n) == [k \in 1..n |-> RoomFile(n + 1 - k)]

RoomFileLists ==
  {RoomFilesUp(3), RoomFilesUp(10), RoomFilesUp(MaxFiles), RoomFilesDown(MaxFiles)}

RoomSelections == {{}, {FileName(2, Txt), FileName(9, Txt)}}

RoomMessages == {AB, F9 \o SP \o AB}

RoomQueries == {QOne, QTwo}

InitRoom ==
  /\ documents \in RoomFileLists
  /\ call = [c \in CallIds |-> Idle]
  /\ scored = NoApplication
  /\ chunked = NoApplication
  /\ estimated = NoApplication
  /\ ui = NoSearchUI
  /\ \E selectedFiles \in RoomSelections, userMessage \in RoomMessages :
       chat = [pc |-> "sending", room |-> RoomName,
               uploadedFiles |-> documents,
               selectedFiles |-> selectedFiles,
               userMessage |-> userMessage,
               scoredFiles |-> <<>>, relevantFiles |-> <<>>,
               maxCharsForFile |-> 0, processedFiles |-> <<>>,
               fileContext |-> <<>>]

\* sendMessage in the room: the array it was given is the room's
AssembleRoomContext ==
  /\ chat.pc = "sending"
  /\ trim(chat.userMessage) # <<>>
  /\ chat' = assembleContext(chat)
  /\ documents' = chat'.uploadedFiles
  /\ UNCHANGED <<call, scored, chunked, estimated, ui>>

NextRoom ==
  \/ \E query \in RoomQueries : StartSearch(1, query)
  \/ ResumeSearch(1)
  \/ AssembleRoomContext

SpecRoom == InitRoom /\ [][NextRoom]_vars

(* the search panel: performSearch is invoked for a query and again, for *)
(* another, before the first search has ended                             *)

PanelQueries == {QEmpty, SP, QOne, QTwo}

\* the results of an earlier search, over the documents before the last
\* upload
EarlierResults ==
  <<[documentId |-> "d1", documentName |-> "one.txt",
     relevantChunks |-> <<[text |-> AB \o SP \o AB, score |-> Frac(1, 1),
                           startIndex |-> 0, endIndex |-> 5]>>,
     overallScore |-> Frac(1, 1)]>>

InitPanel ==
  /\ documents \in ConcurrentDocLists
  /\ call = [c \in CallIds |-> Idle]
  /\ scored = NoApplication
  /\ chunked = NoApplication
  /\ chat = NoChat
  /\ estimated = NoApplication
  /\ \E results \in {<<>>, EarlierResults} :
       ui = [pc |-> "open", loading |-> FALSE, results |-> results,
             escaped |-> FALSE,
             invocation |-> [c \in CallIds |-> "none"]]

\* performSearch up to its await; it returns at once on a blank query and
\* when there are no documents
PerformSearch(c, query) ==
  /\ ui.invocation[c] = "none"
  /\ call[c].pc = "idle"
  /\ trim(query) # <<>>
  /\ Len(documents) # 0
  /\ ui' = searchStarted(ui, c)
  /\ call' = [call EXCEPT ![c] = forDocuments([Idle EXCEPT !.query = query],
                                               documents, 1)]
  /\ UNCHANGED <<documents, scored, chunked, chat, estimated>>

\* performSearch after its await, when the search has returned or thrown
SettleSearch(c) ==
  /\ ui.invocation[c] = "searching"
  /\ call[c].pc \in {"returned", "thrown"}
  /\ ui' = searchSettled(ui, c, call[c])
  /\ UNCHANGED <<documents, call, scored, chunked, chat, estimated>>

NextPanel ==
  \/ \E c \in CallIds, query \in PanelQueries : PerformSearch(c, query)
  \/ \E c \in CallIds : ResumeSearch(c)
  \/ \E c \in CallIds : SettleSearch(c)

SpecPanel == InitPanel /\ [][NextPanel]_vars

\* WF_vars(ResumeSearch(c)) with its ENABLED written out: the action is
\* enabled exactly when call c waits for a score, and it changes the call
ResumeFair(c) ==
  []<>(call[c].pc # "await") \/ []<><<ResumeSearch(c)>>_vars

\* every promise that can settle does: the scorer does no input or output
\* and the continuations of settled promises are run
FairSpecPanel ==
  /\ SpecPanel
  /\ \A c \in CallIds : ResumeFair(c) /\ WF_vars(SettleSearch(c))

(* ============================ properties ============================== *)

Range(seq) == {seq[k] : k \in 1..Len(seq)}

Returned(c) == call[c].pc = "returned"

\* the position in the input list of the document with this id
DocIndex(id) == CHOOSE k \in 1..Len(documents) : documents[k].id = id

\* the chunks of document k and their scores against the query of call c
ChunksOf(k) == chunkDocument(documents[k].content, ChunkSize)

ScoresOf(c, k) ==
  LET chunks == ChunksOf(k)
  IN  [j \in 1..Len(chunks) |-> calculateSemanticSimilarity(call[c].query, chunks[j])]

AboveThreshold(score) == 10 * score.num > 3 * score.den

\* the indices of the chunks that pass the threshold, sc being their scores
Passing(sc) == {j \in DOMAIN sc : AboveThreshold(sc[j])}

\* the chunk index a shown chunk reports
ShownIndex(chunk) == (chunk.startIndex \div ChunkSize) + 1

(* C1: every chunk in the relevantChunks of a returned result has a score  *)
(* strictly greater than 0.3.                                              *)
C1_ChunksAboveThreshold ==
  \A c \in CallIds : Returned(c) =>
    \A r \in Range(call[c].ret) : \A chunk \in Range(r.relevantChunks) :
      AboveThreshold(chunk.score)

\* a result is returned for long.txt whose first chunk scored 1/4 and was
\* left out
C1_Witness ==
  /\ Returned(1)
  /\ call[1].query = QFour
  /\ \E r \in Range(call[1].ret) :
       /\ r.documentId = "d2"
       /\ ScoresOf(1, DocIndex("d2"))[1] = Frac(1, 4)
       /\ \A chunk \in Range(r.relevantChunks) : chunk.startIndex > 0

(* C2: the returned list is in descending order of overallScore, and       *)
(* results of equal overallScore are in the order of their documents in    *)
(* the input list.                                                         *)
C2_SortedStable ==
  \A c \in CallIds : Returned(c) =>
    LET ret == call[c].ret
    IN  \A j, k \in 1..Len(ret) : j < k =>
          /\ ~FracLess(ret[j].overallScore, ret[k].overallScore)
          /\ FracEq(ret[j].overallScore, ret[k].overallScore)
               => DocIndex(ret[j].documentId) < DocIndex(ret[k].documentId)

\* three results: the sort moved the first document back, and the last two
\* tie
C2_Witness ==
  /\ Returned(1)
  /\ Len(call[1].ret) = 3
  /\ call[1].ret[1].documentId # documents[1].id
  /\ FracEq(call[1].ret[2].overallScore, call[1].ret[3].overallScore)
  /\ FracLess(call[1].ret[2].overallScore, call[1].ret[1].overallScore)

\* chunk a ranks before chunk b, sc being the scores of the chunks
Better(sc, a, b) ==
  \/ FracLess(sc[b], sc[a])
  \/ (FracEq(sc[a], sc[b]) /\ a < b)

(* C3: every result holds between 1 and 3 relevantChunks; they are the     *)
(* highest-scoring passing chunks of the document in descending score      *)
(* order, chunks of equal score in their order in the document.            *)
C3_TopThreeChunks ==
  \A c \in CallIds : Returned(c) =>
    \A r \in Range(call[c].ret) :
      LET k == DocIndex(r.documentId)
          chunks == ChunksOf(k)
          sc == ScoresOf(c, k)
          shown == r.relevantChunks
          idx == [j \in 1..Len(shown) |-> ShownIndex(shown[j])]
      IN  /\ Len(shown) >= 1
          /\ Len(shown) <= 3
          /\ Len(shown) = Min(3, Cardinality(Passing(sc)))
          /\ \A j \in 1..Len(shown) :
               /\ idx[j] \in Passing(sc)
               /\ shown[j].text = chunks[idx[j]]
               /\ shown[j].score = sc[idx[j]]
          /\ \A i, j \in 1..Len(shown) : i < j => Better(sc, idx[i], idx[j])
          /\ \A e \in Passing(sc) \ Range(idx) :
               \A j \in 1..Len(shown) : Better(sc, idx[j], e)

\* long.txt against "ab cd": five chunks pass, the first with the lowest
\* score; chunks 2, 3, 4 are shown and chunk 5, which ties them, is not
C3_Witness ==
  /\ Returned(1)
  /\ call[1].query = QTwo
  /\ \E r \in Range(call[1].ret) :
       /\ r.documentId = "d2"
       /\ Cardinality(Passing(ScoresOf(1, DocIndex("d2")))) = 5
       /\ [j \in 1..3 |-> r.relevantChunks[j].startIndex]
            = <<ChunkSize, 2 * ChunkSize, 3 * ChunkSize>>

RECURSIVE SumOver(_, _)
SumOver(sc, S) ==
  IF S = {} THEN Zero
  ELSE LET j == CHOOSE x \in S : TRUE
       IN  FracAdd(SumOver(sc, S \ {j}), sc[j])

\* the mean of the scores that pass the threshold
MeanPassing(sc) == FracDiv(SumOver(sc, Passing(sc)), Cardinality(Passing(sc)))

(* C4: overallScore is the arithmetic mean of the scores of all chunks of  *)
(* the document that passed the threshold, those cut by the top 3 included.*)
C4_OverallIsMeanOfAllPassing ==
  \A c \in CallIds : Returned(c) =>
    \A r \in Range(call[c].ret) :
      FracEq(r.overallScore, MeanPassing(ScoresOf(c, DocIndex(r.documentId))))

\* a result with more than three passing chunks whose overall score (9/10)
\* differs from the mean of the three chunks shown (1)
C4_Witness ==
  /\ Returned(1)
  /\ \E r \in Range(call[1].ret) :
       /\ Cardinality(Passing(ScoresOf(1, DocIndex(r.documentId)))) > 3
       /\ FracEq(r.overallScore, Frac(9, 10))
       /\ \A chunk \in Range(r.relevantChunks) : FracEq(chunk.score, Frac(1, 1))

(* C5: a document is in the returned list iff at least one of its chunks   *)
(* scores above 0.3; no document has two results; one without a passing    *)
(* chunk (empty content included) has none.                                *)
C5_IncludedIffPassingChunk ==
  \A c \in CallIds : Returned(c) =>
    /\ \A k \in 1..Len(documents) :
         LET mine == {j \in 1..Len(call[c].ret) :
                        call[c].ret[j].documentId = documents[k].id}
         IN  /\ Cardinality(mine) <= 1
             /\ (mine # {}) <=> (Passing(ScoresOf(c, k)) # {})
    /\ \A r \in Range(call[c].ret) :
         \E k \in 1..Len(documents) : documents[k].id = r.documentId

\* one document included, one with text but no passing chunk left out, one
\* with empty content left out
C5_Witness ==
  /\ Returned(1)
  /\ Len(documents) = 3
  /\ Len(call[1].ret) = 1
  /\ \E k \in 1..3 : documents[k].content = <<>>
  /\ \E k \in 1..3 :
       /\ documents[k].content # <<>>
       /\ documents[k].id # call[1].ret[1].documentId

Finished(c) == call[c].pc \in {"returned", "thrown"}

\* every document of the list has a content string
AllHaveContent == \A k \in 1..Len(documents) : documents[k].content # Undefined

(* C6: semanticSearch returns an empty list, without raising, whenever the *)
(* document list is empty and whenever the query is the empty string.      *)
C6_EmptyInputsGiveEmptyList ==
  \A c \in CallIds :
    (Finished(c) /\ AllHaveContent
       /\ (documents = <<>> \/ call[c].query = QEmpty))
      => (Returned(c) /\ call[c].ret = <<>>)

(* C7: the relevance scorer returns 0 for the empty query, for every text. *)
C7_EmptyQueryScoresZero ==
  (scored.applied /\ scored.query = <<>>) => scored.score.num = 0

IsWhitespace(ch) == ch \in {" ", "\t", "\n"}

\* where the maximal runs of non-whitespace characters of s begin
TokenStarts(s) ==
  {k \in 1..Len(s) : ~IsWhitespace(s[k]) /\ (k = 1 \/ IsWhitespace(s[k - 1]))}

\* the maximal run of non-whitespace characters of s that begins at k
TokenAt(s, k) ==
  LET e == CHOOSE e \in k..Len(s) :
             /\ \A j \in k..e : ~IsWhitespace(s[j])
             /\ (e = Len(s) \/ IsWhitespace(s[e + 1]))
  IN  SubSeq(s, k, e)

\* matches / max(1, number of query tokens), on whitespace tokens
WhitespaceScore(query, text) ==
  LET q == toLowerCase(query)
      t == toLowerCase(text)
      matched == {k \in TokenStarts(q) :
                    \E j \in TokenStarts(t) :
                      \/ includes(TokenAt(t, j), TokenAt(q, k))
                      \/ includes(TokenAt(q, k), TokenAt(t, j))}
  IN  Frac(Cardinality(matched), Max(1, Cardinality(TokenStarts(q))))

(* C8: the scorer lowercases both inputs, tokenizes them on whitespace     *)
(* (no token is empty), counts the query tokens that contain or are        *)
(* contained in some text token, and returns matches / max(1, number of    *)
(* query tokens), a value in [0, 1].                                       *)
C8_WhitespaceTokenScore ==
  scored.applied =>
    /\ FracEq(scored.score, WhitespaceScore(scored.query, scored.text))
    /\ scored.score.num >= 0
    /\ scored.score.num <= scored.score.den

ScoringFailed(c) ==
  "Error calculating semantic similarity:" \in Range(call[c].console)

CONCAT(seqs) ==
  LET RECURSIVE cat(_)
      cat(k) == IF k = 0 THEN <<>> ELSE cat(k - 1) \o seqs[k]
  IN  cat(Len(seqs))

(* C10: the chunks of chunkDocument, concatenated in index order, are the  *)
(* content; every chunk but the last has exactly chunkSize characters, the *)
(* last between 1 and chunkSize; empty content yields no chunks.           *)
C10_ChunksPartitionContent ==
  chunked.applied =>
    LET chunks == chunked.chunks
        n == Len(chunks)
    IN  /\ CONCAT(chunks) = chunked.content
        /\ \A k \in 1..(n - 1) : Len(chunks[k]) = chunked.chunkSize
        /\ n > 0 => (Len(chunks[n]) >= 1 /\ Len(chunks[n]) <= chunked.chunkSize)
        /\ chunked.content = <<>> => chunks = <<>>
        /\ \A k \in 1..n :
             chunks[k] = SubSeq(chunked.content, (k - 1) * chunked.chunkSize + 1,
                                Min(k * chunked.chunkSize, Len(chunked.content)))

\* several full chunks and a shorter last one
C10_Witness ==
  /\ chunked.applied
  /\ Len(chunked.chunks) >= 3
  /\ Len(chunked.chunks[Len(chunked.chunks)]) < chunked.chunkSize
  /\ chunked.chunkSize > 1

(* -------------------------- the file context --------------------------- *)

Assembled == chat.pc = "assembled"

\* the files the selector chooses from: the selected ones when there is a
\* selection, every uploaded file otherwise
Candidates ==
  IF chat.selectedFiles # {}
  THEN SelectSeq(chat.uploadedFiles, LAMBDA f : f.name \in chat.selectedFiles)
  ELSE chat.uploadedFiles

Shown == Len(chat.relevantFiles)

\* the tokens counted before the files are budgeted
BaseTokens ==
  estimateTokens(baseSystemMessage(chat.room, Len(chat.uploadedFiles), Shown))
    + estimateTokens(chat.userMessage)

\* the estimate for preamble, message and file context sent together
PayloadTokens ==
  (Len(baseSystemMessage(chat.room, Len(chat.uploadedFiles), Shown))
     + Len(chat.userMessage) + Len(chat.fileContext) + 3) \div 4

(* C11: the estimated tokens of preamble, message and file context, with  *)
(* the headers, separators and markers, are at most maxContextTokens plus *)
(* 125 for each file shown, also when the message alone takes the budget  *)
C11_PayloadWithinBudget ==
  (Assembled /\ Shown > 0) =>
    PayloadTokens <= MaxContextTokens + Shown * 125

(* C12: the limit of characters for each file is the larger of 500 and    *)
(* four times floor(max(0, maxContextTokens - baseTokens) / files shown); *)
(* it is never below 500 and is 500 when the base tokens take the budget  *)
C12_CharLimitPerFile ==
  (Assembled /\ Shown > 0) =>
    /\ chat.maxCharsForFile =
         Max(4 * (Max(0, MaxContextTokens - BaseTokens) \div Shown), 500)
    /\ chat.maxCharsForFile >= 500
    /\ (BaseTokens >= MaxContextTokens => chat.maxCharsForFile = 500)

\* the message takes the whole budget, and more, and files are shown
C12_Witness ==
  Assembled /\ Shown > 0 /\ BaseTokens > MaxContextTokens
    /\ chat.maxCharsForFile = 500

\* the content part of the block of the k-th file shown, after its header
Body(k) ==
  SubSeq(chat.processedFiles[k], Len(chat.relevantFiles[k].name) + 10,
         Len(chat.processedFiles[k]))

Content(k) == chat.relevantFiles[k].content

JoinedKeyLines(k) == join(importantLinesOf(Content(k)), <<"\n">>)

KeyDefinitionsBody(k) == JoinedKeyLines(k) \o KeyDefinitionsMarker

TruncatedBody(k) ==
  SubSeq(Content(k), 1, chat.maxCharsForFile) \o TruncatedMarker

OverLimit(k) == Len(Content(k)) > chat.maxCharsForFile

(* C13 as stated: a content over the limit is replaced by its structural  *)
(* and comment lines and the key definitions marker when there is such a  *)
(* line and the lines, joined, have at most maxCharsForFile characters,   *)
(* and is cut at the limit and marked as truncated otherwise              *)
C13_KeyDefinitionsWhenAtMost ==
  Assembled =>
    \A k \in 1..Shown :
      OverLimit(k) =>
        IF /\ Len(importantLinesOf(Content(k))) >= 1
           /\ Len(JoinedKeyLines(k)) <= chat.maxCharsForFile
        THEN Body(k) = KeyDefinitionsBody(k)
        ELSE Body(k) = TruncatedBody(k)

(* C13 amended: the structural and comment lines, in their order, and the *)
(* key definitions marker are used when there is such a line and the      *)
(* lines, joined, have fewer than maxCharsForFile characters; otherwise   *)
(* the content is cut at the limit and marked as truncated                *)
C13_KeyDefinitionsWhenShorter ==
  Assembled =>
    \A k \in 1..Shown :
      OverLimit(k) =>
        IF /\ Len(importantLinesOf(Content(k))) >= 1
           /\ Len(JoinedKeyLines(k)) < chat.maxCharsForFile
        THEN Body(k) = KeyDefinitionsBody(k)
        ELSE Body(k) = TruncatedBody(k)

\* one file is shown by its key lines and another, whose key lines fill
\* the limit exactly, is cut
C13_Witness ==
  /\ Assembled
  /\ \E k \in 1..Shown :
       /\ OverLimit(k)
       /\ Len(JoinedKeyLines(k)) < chat.maxCharsForFile
       /\ Body(k) = KeyDefinitionsBody(k)
  /\ \E k \in 1..Shown :
       /\ OverLimit(k)
       /\ Len(JoinedKeyLines(k)) = chat.maxCharsForFile
       /\ Body(k) = TruncatedBody(k)

(* C14: a content over the limit without any structural or comment line   *)
(* becomes exactly its first maxCharsForFile characters and the           *)
(* truncation marker                                                      *)
C14_PlainContentIsCut ==
  Assembled =>
    \A k \in 1..Shown :
      (OverLimit(k) /\ importantLinesOf(Content(k)) = <<>>) =>
        Body(k) = TruncatedBody(k)

\* a content without important lines is one character over the limit
C14_Witness ==
  /\ Assembled
  /\ \E k \in 1..Shown :
       /\ Len(Content(k)) = chat.maxCharsForFile + 1
       /\ importantLinesOf(Content(k)) = <<>>
       /\ Body(k) = TruncatedBody(k)

(* C15: a content of at most maxCharsForFile characters, the limit        *)
(* itself included, goes into its block unchanged and without a marker    *)
C15_ShortContentVerbatim ==
  Assembled =>
    \A k \in 1..Shown :
      Len(Content(k)) <= chat.maxCharsForFile => Body(k) = Content(k)

\* a content has exactly maxCharsForFile characters
C15_Witness ==
  /\ Assembled
  /\ \E k \in 1..Shown :
       Len(Content(k)) = chat.maxCharsForFile /\ Body(k) = Content(k)

(* ----------------------------- the selector ---------------------------- *)

\* the lowercased words of the message, as split at whitespace
MessageWords == splitWhitespace(toLowerCase(chat.userMessage))

\* how many of the words occur in the lowercased text
Hits(text, words) ==
  Cardinality({i \in 1..Len(words) : includes(toLowerCase(text), words[i])})

IsCode(file) ==
  extension(file.name) \in {<<"p", "y">>, <<"j", "s">>, <<"t", "s">>, <<"c", "s">>}

\* the score as the contract states it
StatedScore(file, words) ==
  10 * Hits(file.name, words) + Hits(file.content, words)
    + (IF IsCode(file) THEN 5 ELSE 0)

\* the stated scores of the candidates, by position
CandidateScores ==
  LET words == MessageWords
      candidates == Candidates
  IN  SubSeq([k \in 1..Len(candidates) |-> StatedScore(candidates[k], words)],
             1, Len(candidates))

NameHits(file) == Hits(file.name, MessageWords)

ContentHits(file) == Hits(file.content, MessageWords)

\* the position among the candidates of the k-th file returned
CandidateIndex(k) ==
  CHOOSE j \in 1..Len(Candidates) : Candidates[j] = chat.relevantFiles[k]

\* the positions among the candidates of the files returned, in their order
CandidateIndexes == SubSeq([k \in 1..Shown |-> CandidateIndex(k)], 1, Shown)

ReturnedIndexes == {CandidateIndex(k) : k \in 1..Shown}

\* files of equal score are returned in the order of their positions
EqualScoresKeepOrder(sc, ix) ==
  \A i, j \in 1..Len(ix) :
    (i < j /\ sc[ix[i]] = sc[ix[j]]) => ix[i] < ix[j]

\* two files of equal score are returned
EqualScoresReturned(sc, ix) ==
  \E i, j \in 1..Len(ix) : i < j /\ sc[ix[i]] = sc[ix[j]]

\* the scores of the files returned do not rise
Descending(sc, ix) ==
  \A k \in 1..(Len(ix) - 1) : sc[ix[k]] >= sc[ix[k + 1]]

\* no file left out has a higher score than a file returned
NoneBetterLeftOut(sc, ix) ==
  \A out \in (1..Len(sc)) \ {ix[k] : k \in 1..Len(ix)} :
    \A k \in 1..Len(ix) : sc[out] <= sc[ix[k]]

(* C16: the selector returns at most 20 files, and files of equal score   *)
(* come out in the relative order in which they went in                   *)
C16_AtMostTwentyStable ==
  Assembled =>
    /\ Shown <= 20
    /\ EqualScoresKeepOrder(CandidateScores, CandidateIndexes)

\* more files than 20 were scored, two of equal score were returned, and
\* the order of the files changed
C16_Witness ==
  /\ Assembled
  /\ Len(Candidates) > 20
  /\ \E i \in 1..Shown : CandidateIndex(i) # i
  /\ EqualScoresReturned(CandidateScores, CandidateIndexes)

NamedCandidates ==
  LET words == MessageWords
      candidates == Candidates
  IN  {k \in 1..Len(candidates) :
         \E i \in 1..Len(words) : words[i] = toLowerCase(candidates[k].name)}

\* the positions of the candidates that match the message in their content
\* and not in their name
ContentOnlyCandidates ==
  LET words == MessageWords
      candidates == Candidates
  IN  {k \in 1..Len(candidates) :
         /\ Hits(candidates[k].name, words) = 0
         /\ Hits(candidates[k].content, words) > 0}

\* those of them in whose content fewer than 10 message words occur, or
\* fewer than 5 when the file has a code extension
WeakContentOnlyCandidates ==
  LET words == MessageWords
      candidates == Candidates
  IN  {k \in 1..Len(candidates) :
         /\ Hits(candidates[k].name, words) = 0
         /\ Hits(candidates[k].content, words) > 0
         /\ Hits(candidates[k].content, words)
              < (IF IsCode(candidates[k]) THEN 5 ELSE 10)}

NamedAlwaysWins(sc, ix, named, contentOnly) ==
  \A d \in named :
    /\ \E k \in 1..Len(ix) : ix[k] = d
    /\ \A e \in contentOnly : sc[d] > sc[e]

NamedWinsOverWeak(sc, ix, named, weak) ==
  \A d \in named :
    /\ sc[d] >= 10
    /\ \A e \in weak : sc[d] > sc[e]
    /\ Cardinality({k \in (1..Len(sc)) \ {d} : sc[k] >= sc[d]}) < 20
         => \E k \in 1..Len(ix) : ix[k] = d

NamedTied(sc, ix, named, contentOnly) ==
  \E d \in named :
    /\ \E k \in 1..Len(ix) : ix[k] = d
    /\ \E e \in contentOnly : sc[d] = sc[e]

(* C19 as stated: of more than 20 candidates, one whose exact filename is *)
(* a word of the message is among the 20 returned and scores strictly     *)
(* higher than every file that matches the message only in its content,   *)
(* whatever the other words and the extensions of the other files         *)
C19_NamedFileAlwaysWins ==
  (Assembled /\ Len(Candidates) > 20) =>
    NamedAlwaysWins(CandidateScores, CandidateIndexes, NamedCandidates,
                    ContentOnlyCandidates)

(* C19 amended: of more than 20 candidates, one whose exact filename is a *)
(* word of the message scores at least 10 and strictly higher than every  *)
(* content-only file in whose content fewer than 10 message words occur   *)
(* (fewer than 5 for a code file), and it is among the 20 returned        *)
(* whenever fewer than 20 other candidates score at least as high         *)
C19_NamedFileWinsOverWeakMatches ==
  (Assembled /\ Len(Candidates) > 20) =>
    NamedWinsOverWeak(CandidateScores, CandidateIndexes, NamedCandidates,
                      WeakContentOnlyCandidates)

\* the file named in the message is returned and a file that matches only
\* in its content has the same score
C19_Witness ==
  /\ Assembled
  /\ Len(Candidates) > 20
  /\ NamedTied(CandidateScores, CandidateIndexes, NamedCandidates,
               ContentOnlyCandidates)

\* somewhere a score is followed by a higher one
Rising(sc) == \E k \in 1..(Len(sc) - 1) : sc[k] < sc[k + 1]

(* C20: at most 20 candidates (the selected files when there is a         *)
(* selection, all the files otherwise) are returned as they are, the same *)
(* files in the same order, and nothing is scored                         *)
C20_FewCandidatesAsIs ==
  (Assembled /\ Len(Candidates) <= 20) =>
    /\ chat.relevantFiles = Candidates
    /\ chat.scoredFiles = <<>>

\* exactly 20 selected files are returned in an order that is not the
\* order of their scores
C20_Witness ==
  /\ Assembled
  /\ chat.selectedFiles # {}
  /\ Len(Candidates) = 20
  /\ chat.relevantFiles = Candidates
  /\ Rising(CandidateScores)

(* -------------------------- the token estimator ------------------------ *)

\* t is the least whole number of tokens of 4 characters that hold n
\* characters
IsCeilingOfQuarter(t, n) == 4 * t >= n /\ 4 * (t - 1) < n

(* C26: estimateTokens(s) is ceil(len(s) / 4) for every string, it does   *)
(* not fall when the length grows, and the empty string estimates to 0    *)
C26_EstimateIsCeiling ==
  estimated.applied =>
    /\ IsCeilingOfQuarter(estimated.tokensA, Len(estimated.a))
    /\ IsCeilingOfQuarter(estimated.tokensB, Len(estimated.b))
    /\ (Len(estimated.a) <= Len(estimated.b)
          => estimated.tokensA <= estimated.tokensB)
    /\ (estimated.a = <<>> => estimated.tokensA = 0)

\* a string of one character over a multiple of 4 against a longer one
\* with the same estimate
C26_Witness ==
  /\ estimated.applied
  /\ Len(estimated.a) = 5
  /\ Len(estimated.b) = 8
  /\ estimated.tokensA = 2
  /\ estimated.tokensB = 2

(* ------------------------ selection, then budget ----------------------- *)

\* '--- <name> ---' and a line break
Header(name) ==
  <<"-", "-", "-", " ">> \o name \o <<" ", "-", "-", "-", "\n">>

\* the k-th block is a block of the k-th file returned by the selector
BlockOf(k) == startsWith(chat.processedFiles[k], Header(chat.relevantFiles[k].name))

(* C21: the selector runs before the budgeter: the budget is divided by   *)
(* the number of files the selector returned, never by more than 20, and  *)
(* the blocks are the blocks of those files, none for a file left out     *)
C21_SelectionBeforeBudget ==
  Assembled =>
    /\ Len(chat.processedFiles) = Shown
    /\ Len(chat.processedFiles) <= 20
    /\ \A k \in 1..Shown : BlockOf(k)
    /\ Shown > 0 =>
         chat.maxCharsForFile =
           Max(4 * ((MaxContextTokens - BaseTokens) \div Shown), 500)

\* files were left out, and the budget for each file is above the floor of
\* 500 characters
C21_Witness ==
  /\ Assembled
  /\ Len(Candidates) > 20
  /\ Shown = 20
  /\ Len(chat.processedFiles) = 20
  /\ chat.maxCharsForFile > 500
  /\ \E k \in 1..Shown : CandidateIndex(k) # k

(* --------------------- the form of the file context -------------------- *)

\* 'Context from files (<shown>/<total> shown):' between two line breaks
\* and one
ContextHeading(shown, total) ==
  <<"\n", "\n", "C", "o", "n", "t", "e", "x", "t", " ", "f", "r", "o", "m",
    " ", "f", "i", "l", "e", "s", " ", "(">>
    \o decimal(shown) \o <<"/">> \o decimal(total)
    \o <<" ", "s", "h", "o", "w", "n", ")", ":", "\n">>

\* the header of the k-th file returned, a line break and the rest of its
\* block
StatedBlocks ==
  [k \in 1..Shown |-> Header(chat.relevantFiles[k].name) \o Body(k)]

(* C22: the context has exactly one block for each file selected, in the  *)
(* order of the selector, each '--- <name> ---', a line break and a body, *)
(* the blocks one blank line apart; the count shown is the number of      *)
(* blocks and the total is the size of the whole corpus                   *)
C22_ContextForm ==
  (Assembled /\ Shown > 0) =>
    /\ Len(chat.processedFiles) = Shown
    /\ \A k \in 1..Shown : BlockOf(k)
    /\ chat.fileContext =
         ContextHeading(Len(chat.processedFiles), Len(chat.uploadedFiles))
           \o join(StatedBlocks, <<"\n", "\n">>)

\* several blocks, fewer than the files of the room
C22_Witness ==
  /\ Assembled
  /\ Shown > 1
  /\ Shown < Len(chat.uploadedFiles)
  /\ Len(chat.processedFiles) = Shown
  /\ chat.fileContext # <<>>

(* C28: with a selection that is not empty only selected files appear in  *)
(* the context: every block is the block of a selected file, also when    *)
(* the selection has more than 20 files and is reduced by scoring         *)
C28_OnlySelectedFilesShown ==
  (Assembled /\ chat.selectedFiles # {}) =>
    /\ Len(chat.processedFiles) = Shown
    /\ \A k \in 1..Shown :
         /\ chat.relevantFiles[k].name \in chat.selectedFiles
         /\ BlockOf(k)

\* more than 20 files are selected out of a larger room and 20 are shown
C28_Witness ==
  /\ Assembled
  /\ chat.selectedFiles # {}
  /\ Len(Candidates) > 20
  /\ Len(Candidates) < Len(chat.uploadedFiles)
  /\ Len(chat.processedFiles) = 20

\* the body of the k-th block is its important lines and their marker
KeyDefinitionsShown(k) == OverLimit(k) /\ Body(k) = KeyDefinitionsBody(k)

(* C30: every body is at most maxCharsForFile plus 32 characters, the     *)
(* length of the longest marker, whether verbatim, key definitions or     *)
(* cut; the lines kept as key definitions are, joined, strictly shorter   *)
(* than maxCharsForFile                                                   *)
C30_BodyBounded ==
  Assembled =>
    \A k \in 1..Shown :
      /\ Len(Body(k)) <= chat.maxCharsForFile + 32
      /\ KeyDefinitionsShown(k) => Len(JoinedKeyLines(k)) < chat.maxCharsForFile

\* one body is verbatim at the limit, one is key definitions one character
\* under the limit, and one is cut
C30_Witness ==
  /\ Assembled
  /\ \E k \in 1..Shown :
       Len(Content(k)) = chat.maxCharsForFile /\ Body(k) = Content(k)
  /\ \E k \in 1..Shown :
       /\ KeyDefinitionsShown(k)
       /\ Len(JoinedKeyLines(k)) = chat.maxCharsForFile - 1
       /\ Len(Body(k)) = chat.maxCharsForFile + 31
  /\ \E k \in 1..Shown :
       OverLimit(k) /\ Len(Body(k)) = chat.maxCharsForFile + 24

(* ---------------------- spacing in the chunk text ---------------------- *)

\* the words of s: its lowercased pieces between spaces that are not empty
WordsOf(s) ==
  LET pieces == splitSpace(toLowerCase(s))
  IN  {pieces[k] : k \in {j \in 1..Len(pieces) : pieces[j] # <<>>}}

\* no word of the text contains or is contained in a word of the query
Unrelated(query, text) ==
  \A q \in WordsOf(query), t \in WordsOf(text) :
    ~includes(t, q) /\ ~includes(q, t)

(* C27: a chunk none of whose words contains or is contained in a word of *)
(* a query that is not empty does not pass the relevance threshold,       *)
(* wherever the spaces fall in the chunk: leading, trailing or doubled    *)
(* spaces do not make unrelated query words count as matches              *)
C27_UnrelatedChunkNeverPasses ==
  (/\ scored.applied
   /\ WordsOf(scored.query) # {}
   /\ scored.text # <<>>
   /\ Unrelated(scored.query, scored.text))
    => ~FracLess(Threshold, scored.score)

(* --------------------------- chunk indexes ----------------------------- *)

\* the indexes of the chunk agree with the content it was taken from
IndexesAgree(chunk, content) ==
  /\ chunk.startIndex % 500 = 0
  /\ 0 <= chunk.startIndex
  /\ chunk.startIndex < chunk.endIndex
  /\ chunk.endIndex <= Len(content)
  /\ chunk.endIndex - chunk.startIndex = Len(chunk.text)
  /\ Len(chunk.text) <= 500
  /\ chunk.text = SubSeq(content, chunk.startIndex + 1, chunk.endIndex)

(* C29: for every chunk of every result, startIndex is a multiple of 500, *)
(* 0 <= startIndex < endIndex <= content length, endIndex - startIndex is *)
(* the length of the chunk text (at most 500), the text is the content    *)
(* between the two indexes, and no two chunks of a result share a         *)
(* startIndex                                                             *)
C29_ChunkIndexesConsistent ==
  Returned(1) =>
    \A r \in 1..Len(call[1].ret) :
      LET result == call[1].ret[r]
          content == documents[DocIndex(result.documentId)].content
          shown == result.relevantChunks
      IN  /\ \A k \in 1..Len(shown) : IndexesAgree(shown[k], content)
          /\ \A j, k \in 1..Len(shown) :
               shown[j].startIndex = shown[k].startIndex => j = k

\* one result has chunks from several windows, another a chunk that ends
\* with the content before its window does
C29_Witness ==
  /\ Returned(1)
  /\ \E r \in 1..Len(call[1].ret) :
       /\ Len(call[1].ret[r].relevantChunks) = 3
       /\ \E k \in 1..3 : call[1].ret[r].relevantChunks[k].startIndex >= 1000
  /\ \E r \in 1..Len(call[1].ret) :
       \E k \in 1..Len(call[1].ret[r].relevantChunks) :
         LET chunk == call[1].ret[r].relevantChunks[k]
         IN  chunk.endIndex < chunk.startIndex + 500

(* --------------------------- searches at once -------------------------- *)

\* what the document contributes to a search that runs alone
ResultAlone(query, document) ==
  LET chunks == chunkDocument(document.content, ChunkSize)
      all == [i \in 1..Len(chunks) |->
                relevantChunk(chunks[i],
                              calculateSemanticSimilarity(query, chunks[i]),
                              i - 1, document)]
      passing == SelectSeq(all, LAMBDA chunk : relevant(chunk.score))
  IN  IF Len(passing) > 0
      THEN <<[documentId |-> document.id,
              documentName |-> document.name,
              relevantChunks |-> topChunks(passing),
              overallScore |-> overallScoreOf(passing)]>>
      ELSE <<>>

RECURSIVE ResultsAlone(_, _)
ResultsAlone(query, docs) ==
  IF docs = <<>> THEN <<>>
  ELSE ResultAlone(query, Head(docs)) \o ResultsAlone(query, Tail(docs))

\* the search fails alone: some document has no content
FailsAlone(docs) == \E d \in 1..Len(docs) : docs[d].content = Undefined

\* call c ended as the same search ends when it runs alone
EndedAsAlone(c) ==
  IF FailsAlone(documents)
  THEN call[c].pc = "thrown"
  ELSE /\ call[c].pc = "returned"
       /\ call[c].ret = sortResults(ResultsAlone(call[c].query, documents))

(* C24: two semanticSearch calls whose scoring steps interleave do not    *)
(* interfere: each returns what it would return alone and neither sees    *)
(* results accumulated by the other                                       *)
C24_ConcurrentCallsIndependent ==
  \A c \in CallIds : Finished(c) => EndedAsAlone(c)

\* the first call has returned its results while the second, with another
\* query, has results of its own and waits for a score
C24_Witness ==
  /\ Returned(1)
  /\ call[1].ret # <<>>
  /\ EndedAsAlone(1)
  /\ call[2].pc = "await"
  /\ call[2].results # <<>>
  /\ call[2].query # call[1].query
  /\ call[2].results # call[1].ret

(* --------------------------- the search panel -------------------------- *)

\* an invocation ends with the loading flag off, and with no results shown
\* when its search failed
SettledRight ==
  \A c \in CallIds :
    (ui.invocation[c] = "searching" /\ ui'.invocation[c] = "done") =>
      /\ ~ui'.loading
      /\ call[c].pc = "thrown" => ui'.results = <<>>

(* C25: every performSearch invocation that starts a search eventually    *)
(* sets the loading flag to false, whether the search succeeds or fails;  *)
(* when semanticSearch fails the results shown become empty and no        *)
(* exception leaves performSearch                                         *)
C25_SearchAlwaysSettles ==
  /\ \A c \in CallIds :
       (ui.pc = "open" /\ ui.invocation[c] = "searching")
         ~> (ui.invocation[c] = "done" /\ ~ui.loading)
  /\ [][SettledRight]_vars
  /\ [](ui.pc = "open" => ~ui.escaped)

\* both invocations have ended, the searches having failed, and the panel
\* shows no results and is not loading
C25_Witness ==
  /\ ui.pc = "open"
  /\ ui.invocation[1] = "done"
  /\ ui.invocation[2] = "done"
  /\ call[1].pc = "thrown"
  /\ call[2].pc = "thrown"
  /\ ~ui.loading
  /\ ui.results = <<>>

ResultsReordered ==
  \E j, k \in 1..Len(call[1].ret) :
    j < k /\ DocIndex(call[1].ret[j].documentId) > DocIndex(call[1].ret[k].documentId)

\* the files selected are not in the order of the uploaded files
SelectionReordered ==
  \E j, k \in 1..Len(chat.relevantFiles) :
    /\ j < k
    /\ \E a, b \in 1..Len(chat.uploadedFiles) :
         /\ chat.uploadedFiles[a].name = chat.relevantFiles[j].name
         /\ chat.uploadedFiles[b].name = chat.relevantFiles[k].name
         /\ a > b

====
